---- MODULE Spec2Model ----
(***************************************************************************)
(* Route table of src/main.go: a map of exact match routes, a slice of     *)
(* prefix match routes sorted by decreasing path length, and the slice of  *)
(* paths of the dynamically generated exact match entries that cache the   *)
(* results of prefix lookups.                                              *)
(***************************************************************************)
EXTENDS Integers, Sequences, FiniteSets, TLC

\* Paths, destinations and match types the callers draw their arguments from.
Paths == {"", "/a", "/a/b", "/c"}
Destinations == {"s1", "s2"}
MatchTypes == {"exact", "prefix", "regex"}

\* Number of calls of AddRoute and RouteLookup a behaviour makes.
MaxCalls == 3

\* Length the three tables are made with in init().
InitialSize == 10

DefaultService == "default-service"

VARIABLES
    prefixRoutesTable,  \* []route, the prefix match routes
    exactMatchTable,    \* map[string]route, static and dynamic exact routes
    dynamicEntries,     \* []string, paths of the dynamic entries created
    ret,                \* the last call, its arguments and what it returned
    exactRoutes,        \* history: path -> destination of the last AddRoute taking the exact branch
    prefixRoutes,       \* history: path -> destination of the last AddRoute taking the prefix branch
    answered,           \* history: path -> what RouteLookup last returned since the last prefix AddRoute,
                        \* whether AddRoute took the exact branch for the path since then, and whether
                        \* that lookup repeated an earlier one with no such AddRoute in between
    calls,              \* number of calls made
    done,               \* entries of addLookupTests already run (worked example only)
    flushed,            \* history: whether the last call ran flushDynamicRoutes, and the paths
                        \* dynamicEntries held when it did
    proc,               \* concurrent callers: each one's call, position in it and locals
    forked              \* concurrent callers: the tables when the callers started

vars == <<prefixRoutesTable, exactMatchTable, dynamicEntries, ret,
          exactRoutes, prefixRoutes, answered, calls, done, flushed, proc, forked>>

----------------------------------------------------------------------------
\* Data

Route(path, matchType, destination, dynamicEntry) ==
    [path |-> path, matchType |-> matchType,
     destination |-> destination, dynamicEntry |-> dynamicEntry]

\* The zero value of the route struct.
ZeroRoute == Route("", "", "", FALSE)

EmptyMap == [q \in {} |-> ZeroRoute]

\* m[k] = v of a Go map
Put(m, k, v) == [q \in DOMAIN m \cup {k} |-> IF q = k THEN v ELSE m[q]]

\* delete(m, k) of a Go map
Delete(m, k) == [q \in DOMAIN m \ {k} |-> m[q]]

Max(S) == CHOOSE x \in S : \A y \in S : y <= x
Min(S) == CHOOSE x \in S : \A y \in S : x <= y

RemoveAt(s, i) == SubSeq(s, 1, i - 1) \o SubSeq(s, i + 1, Len(s))

----------------------------------------------------------------------------
\* sort.Slice(prefixRoutesTable, longer path first): the sort is not stable,
\* so every arrangement of the records that is non-increasing by path
\* length is an outcome.

RECURSIVE Orderings(_)
Orderings(g) ==
    IF g = <<>> THEN {<<>>}
    ELSE UNION { { <<g[i]>> \o t : t \in Orderings(RemoveAt(g, i)) } :
                 i \in { k \in DOMAIN g : \A j \in 1..(k - 1) : g[j] /= g[k] } }

RECURSIVE SortByLengths(_, _)
SortByLengths(s, lens) ==
    IF lens = {} THEN {<<>>}
    ELSE LET L == Max(lens)
             group == SelectSeq(s, LAMBDA r : Len(r.path) = L)
         IN  { a \o b : a \in Orderings(group), b \in SortByLengths(s, lens \ {L}) }

\* The slice left in the order of insertion.
SortSliceSkipped(s) == {s}

SortSlice(s) == SortByLengths(s, { Len(s[i].path) : i \in DOMAIN s })

----------------------------------------------------------------------------
\* flushDynamicRoutes

\* The loop of flushDynamicRoutes without the test of dynamicEntry.
RECURSIVE FlushFromAnyEntry(_, _, _)
FlushFromAnyEntry(table, entries, i) ==
    IF i > Len(entries) THEN table
    ELSE LET p == entries[i]
         IN  FlushFromAnyEntry(IF p /= "" /\ p \in DOMAIN table
                               THEN Delete(table, p) ELSE table,
                               entries, i + 1)

RECURSIVE FlushFrom(_, _, _)
FlushFrom(table, entries, i) ==
    IF i > Len(entries) THEN table
    ELSE LET p == entries[i]
         IN  FlushFrom(IF p /= "" /\ p \in DOMAIN table /\ table[p].dynamicEntry
                       THEN Delete(table, p) ELSE table,
                       entries, i + 1)

NoFlush == [ran |-> FALSE, entries |-> {}]

Flush(entries) == [ran |-> TRUE, entries |-> { entries[i] : i \in DOMAIN entries }]

\* flushDynamicRoutes clearing dynamicEntries without deleting the entries.
flushKeepsEntries ==
    /\ UNCHANGED exactMatchTable
    /\ dynamicEntries' = <<>>
    /\ flushed' = Flush(dynamicEntries)

flushDynamicRoutes ==
    /\ exactMatchTable' = FlushFrom(exactMatchTable, dynamicEntries, 1)
    /\ dynamicEntries' = <<>>
    /\ flushed' = Flush(dynamicEntries)

----------------------------------------------------------------------------
\* RouteLookup

\* The match test without the test for an empty route path.
MatchesEmptyToo(r, path) ==
    /\ Len(path) >= Len(r.path)
    /\ r.path = SubSeq(path, 1, Len(r.path))

\* The match test with the tests of the lengths only.
MatchesByLength(r, path) ==
    /\ Len(path) >= Len(r.path)
    /\ Len(r.path) /= 0

\* The match test of the scan of prefixRoutesTable.
Matches(r, path) ==
    /\ Len(path) >= Len(r.path)
    /\ Len(r.path) /= 0
    /\ r.path = SubSeq(path, 1, Len(r.path))

\* Index of the first record of the table that matches, 0 when none does.
FirstMatch(table, path) ==
    LET I == { i \in DOMAIN table : Matches(table[i], path) }
    IN  IF I = {} THEN 0 ELSE Min(I)

\* The destination the scan of a prefix table gives a path.
ScanDestination(table, path) ==
    LET i == FirstMatch(table, path)
    IN  IF i /= 0 THEN table[i].destination ELSE DefaultService

\* createDynamicRoute caching the default service whatever the scan found.
createDynamicRouteDefault(path, destination) ==
    /\ dynamicEntries' = Append(dynamicEntries, path)
    /\ exactMatchTable' = Put(exactMatchTable, path, Route(path, "exact", DefaultService, TRUE))

\* createDynamicRoute without the entry in the dynamicEntries slice.
createDynamicRouteNoLedger(path, destination) ==
    /\ UNCHANGED dynamicEntries
    /\ exactMatchTable' = Put(exactMatchTable, path, Route(path, "exact", destination, TRUE))

createDynamicRoute(path, destination) ==
    /\ dynamicEntries' = Append(dynamicEntries, path)
    /\ exactMatchTable' = Put(exactMatchTable, path, Route(path, "exact", destination, TRUE))

\* What RouteLookup(path) returns in the current state.
LookupDestination(path) ==
    IF path \in DOMAIN exactMatchTable THEN exactMatchTable[path].destination
    ELSE LET i == FirstMatch(prefixRoutesTable, path)
         IN  IF i /= 0 THEN prefixRoutesTable[i].destination ELSE DefaultService

LookupReturn(path) ==
    [op |-> "RouteLookup", path |-> path, matchType |-> "", destination |-> "",
     result |-> LookupDestination(path), err |-> "nil"]

RouteLookup(path) ==
    /\ IF path \in DOMAIN exactMatchTable
       THEN UNCHANGED <<exactMatchTable, dynamicEntries>>
       ELSE createDynamicRoute(path, LookupDestination(path))
    /\ ret' = LookupReturn(path)
    /\ answered' = Put(answered, path,
                        [destination |-> LookupDestination(path),
                         exactSince |-> FALSE,
                         repeated |-> path \in DOMAIN answered /\ ~answered[path].exactSince])
    /\ flushed' = NoFlush
    /\ UNCHANGED <<prefixRoutesTable, exactRoutes, prefixRoutes>>

----------------------------------------------------------------------------
\* AddRoute

AddReturn(path, matchType, destination) ==
    [op |-> "AddRoute", path |-> path, matchType |-> matchType,
     destination |-> destination, result |-> "", err |-> "nil"]

AddExact(path, rte) ==
    /\ exactMatchTable' = Put(exactMatchTable, path, rte)
    /\ UNCHANGED <<prefixRoutesTable, dynamicEntries>>

\* The prefix route exists already: update it, flush the dynamic entries.
ModifyPrefix(path, destination) ==
    LET i == Min({ k \in DOMAIN prefixRoutesTable : prefixRoutesTable[k].path = path })
    IN  /\ prefixRoutesTable' = [prefixRoutesTable EXCEPT ![i].destination = destination]
        /\ flushDynamicRoutes

\* Not found in the prefix table: add it as a new entry and re-sort the slice.
InsertPrefix(rte) ==
    /\ prefixRoutesTable' \in SortSlice(Append(prefixRoutesTable, rte))
    /\ UNCHANGED <<exactMatchTable, dynamicEntries>>

AddRoute(path, matchType, destination) ==
    LET rte == Route(path, matchType, destination, FALSE)
    IN  /\ IF matchType = "exact"
           THEN /\ AddExact(path, rte)
                /\ exactRoutes' = Put(exactRoutes, path, destination)
                /\ answered' = IF path \in DOMAIN answered
                               THEN [answered EXCEPT ![path].exactSince = TRUE]
                               ELSE answered
                /\ flushed' = NoFlush
                /\ UNCHANGED prefixRoutes
           ELSE /\ IF \E k \in DOMAIN prefixRoutesTable : prefixRoutesTable[k].path = path
                   THEN ModifyPrefix(path, destination)
                   ELSE InsertPrefix(rte) /\ flushed' = NoFlush
                /\ prefixRoutes' = Put(prefixRoutes, path, destination)
                /\ answered' = EmptyMap
                /\ UNCHANGED exactRoutes
        /\ ret' = AddReturn(path, matchType, destination)

----------------------------------------------------------------------------
\* init() and the callers

\* The concurrent callers.
Procs == {1, 2}

\* A caller's call: its position, its arguments, the destination its scan
\* found and the destination it returned.
Caller(pc, op, path, matchType, destination) ==
    [pc |-> pc, op |-> op, path |-> path, matchType |-> matchType,
     destination |-> destination, found |-> "", result |-> ""]

\* A caller that has not started.
Idle == Caller("idle", "", "", "", "")

\* The three tables.
Tables(prefix, exact, entries) == [prefix |-> prefix, exact |-> exact, entries |-> entries]

NoTables == Tables(<<>>, EmptyMap, <<>>)

NoCall == [op |-> "init", path |-> "", matchType |-> "", destination |-> "",
           result |-> "", err |-> "nil"]

Init ==
    /\ prefixRoutesTable = [i \in 1..InitialSize |-> ZeroRoute]
    /\ exactMatchTable = EmptyMap
    /\ dynamicEntries = [i \in 1..InitialSize |-> ""]
    /\ ret = NoCall
    /\ exactRoutes = EmptyMap
    /\ prefixRoutes = EmptyMap
    /\ answered = EmptyMap
    /\ calls = 0
    /\ done = {}
    /\ flushed = NoFlush
    /\ proc = [self \in Procs |-> Idle]
    /\ forked = NoTables

CallAddRoute ==
    /\ calls < MaxCalls
    /\ \E path \in Paths, matchType \in MatchTypes, destination \in Destinations :
           AddRoute(path, matchType, destination)
    /\ calls' = calls + 1
    /\ UNCHANGED <<done, proc, forked>>

CallRouteLookup ==
    /\ calls < MaxCalls
    /\ \E path \in Paths : RouteLookup(path)
    /\ calls' = calls + 1
    /\ UNCHANGED <<done, proc, forked>>

Next == CallAddRoute \/ CallRouteLookup

Spec == Init /\ [][Next]_vars

----------------------------------------------------------------------------
\* Callers that register prefix routes and look paths up, the calls that
\* build and scan the prefix table.

MaxPrefixCalls == 3

CallAddPrefix ==
    /\ calls < MaxPrefixCalls
    /\ \E path \in Paths, destination \in Destinations : AddRoute(path, "prefix", destination)
    /\ calls' = calls + 1
    /\ UNCHANGED <<done, proc, forked>>

CallLookupPrefix ==
    /\ calls < MaxPrefixCalls
    /\ \E path \in Paths : RouteLookup(path)
    /\ calls' = calls + 1
    /\ UNCHANGED <<done, proc, forked>>

PrefixNext == CallAddPrefix \/ CallLookupPrefix

PrefixSpec == Init /\ [][PrefixNext]_vars

----------------------------------------------------------------------------
\* Concurrent callers.  No statement of AddRoute, RouteLookup,
\* createDynamicRoute or flushDynamicRoutes takes a lock, so the calls of
\* two callers interleave.  After at most MaxSetup calls made one at a time,
\* the two callers each start one call; a step is one statement, or one
\* loop, of the source that reads or writes a table.  The accesses are data
\* races: the interleavings of the steps are outcomes of them, and so is the
\* fatal error with which the runtime stops the program when it detects a
\* write of the map concurrent with another access to it.

MaxSetup == 1

Quiet == \A self \in Procs : proc[self] = Idle

SetupAddRoute ==
    /\ Quiet
    /\ calls < MaxSetup
    /\ \E path \in Paths, matchType \in MatchTypes, destination \in Destinations :
           AddRoute(path, matchType, destination)
    /\ calls' = calls + 1
    /\ UNCHANGED <<done, proc, forked>>

SetupRouteLookup ==
    /\ Quiet
    /\ calls < MaxSetup
    /\ \E path \in Paths : RouteLookup(path)
    /\ calls' = calls + 1
    /\ UNCHANGED <<done, proc, forked>>

\* The calls a caller may start.
StartedCalls ==
    { Caller("get", "RouteLookup", path, "", "") : path \in Paths }
    \cup { Caller("add", "AddRoute", path, matchType, destination) :
             path \in Paths, matchType \in MatchTypes, destination \in Destinations }

history == <<ret, exactRoutes, prefixRoutes, answered, flushed, calls, done>>

\* Both callers start their calls.
Fork ==
    /\ Quiet
    /\ proc' \in [Procs -> StartedCalls]
    /\ forked' = Tables(prefixRoutesTable, exactMatchTable, dynamicEntries)
    /\ UNCHANGED <<prefixRoutesTable, exactMatchTable, dynamicEntries>>
    /\ UNCHANGED history

\* rte, ok := exactMatchTable[path]; if ok, return rte.destination
LookupGet(self) ==
    /\ proc[self].pc = "get"
    /\ proc' = [proc EXCEPT ![self] =
                  IF proc[self].path \in DOMAIN exactMatchTable
                  THEN [@ EXCEPT !.pc = "done",
                                 !.result = exactMatchTable[proc[self].path].destination]
                  ELSE [@ EXCEPT !.pc = "scan"]]
    /\ UNCHANGED <<prefixRoutesTable, exactMatchTable, dynamicEntries, forked>>
    /\ UNCHANGED history

\* The sequential walk of prefixRoutesTable, or the default service.
LookupScan(self) ==
    /\ proc[self].pc = "scan"
    /\ proc' = [proc EXCEPT ![self] =
                  [@ EXCEPT !.pc = "append",
                            !.found = ScanDestination(prefixRoutesTable, proc[self].path)]]
    /\ UNCHANGED <<prefixRoutesTable, exactMatchTable, dynamicEntries, forked>>
    /\ UNCHANGED history

\* createDynamicRoute: dynamicEntries = append(dynamicEntries, path)
LookupAppend(self) ==
    /\ proc[self].pc = "append"
    /\ dynamicEntries' = Append(dynamicEntries, proc[self].path)
    /\ proc' = [proc EXCEPT ![self] = [@ EXCEPT !.pc = "put"]]
    /\ UNCHANGED <<prefixRoutesTable, exactMatchTable, forked>>
    /\ UNCHANGED history

\* createDynamicRoute: exactMatchTable[path] = rte, and the return of the
\* destination the scan found.
LookupPut(self) ==
    /\ proc[self].pc = "put"
    /\ exactMatchTable' = Put(exactMatchTable, proc[self].path,
                              Route(proc[self].path, "exact", proc[self].found, TRUE))
    /\ proc' = [proc EXCEPT ![self] = [@ EXCEPT !.pc = "done", !.result = proc[self].found]]
    /\ UNCHANGED <<prefixRoutesTable, dynamicEntries, forked>>
    /\ UNCHANGED history

\* if matchType == "exact": exactMatchTable[path] = rte; return nil
AddExactStep(self) ==
    /\ proc[self].pc = "add"
    /\ proc[self].matchType = "exact"
    /\ exactMatchTable' = Put(exactMatchTable, proc[self].path,
                              Route(proc[self].path, proc[self].matchType,
                                    proc[self].destination, FALSE))
    /\ proc' = [proc EXCEPT ![self] = [@ EXCEPT !.pc = "done"]]
    /\ UNCHANGED <<prefixRoutesTable, dynamicEntries, forked>>
    /\ UNCHANGED history

\* The loop that looks for the path in prefixRoutesTable and updates the
\* destination of the record found; the flush is deferred.
AddFind(self) ==
    /\ proc[self].pc = "add"
    /\ proc[self].matchType /= "exact"
    /\ LET I == { k \in DOMAIN prefixRoutesTable : prefixRoutesTable[k].path = proc[self].path }
       IN  IF I /= {}
           THEN /\ prefixRoutesTable' =
                      [prefixRoutesTable EXCEPT ![Min(I)].destination = proc[self].destination]
                /\ proc' = [proc EXCEPT ![self] = [@ EXCEPT !.pc = "flush"]]
           ELSE /\ UNCHANGED prefixRoutesTable
                /\ proc' = [proc EXCEPT ![self] = [@ EXCEPT !.pc = "insert"]]
    /\ UNCHANGED <<exactMatchTable, dynamicEntries, forked>>
    /\ UNCHANGED history

\* prefixRoutesTable = append(prefixRoutesTable, rte); sort.Slice(...)
AddInsert(self) ==
    /\ proc[self].pc = "insert"
    /\ prefixRoutesTable' \in
           SortSlice(Append(prefixRoutesTable,
                            Route(proc[self].path, proc[self].matchType,
                                  proc[self].destination, FALSE)))
    /\ proc' = [proc EXCEPT ![self] = [@ EXCEPT !.pc = "done"]]
    /\ UNCHANGED <<exactMatchTable, dynamicEntries, forked>>
    /\ UNCHANGED history

\* flushDynamicRoutes: the loop over dynamicEntries
AddFlush(self) ==
    /\ proc[self].pc = "flush"
    /\ exactMatchTable' = FlushFrom(exactMatchTable, dynamicEntries, 1)
    /\ proc' = [proc EXCEPT ![self] = [@ EXCEPT !.pc = "clear"]]
    /\ UNCHANGED <<prefixRoutesTable, dynamicEntries, forked>>
    /\ UNCHANGED history

\* flushDynamicRoutes: dynamicEntries = nil
AddClear(self) ==
    /\ proc[self].pc = "clear"
    /\ dynamicEntries' = <<>>
    /\ proc' = [proc EXCEPT ![self] = [@ EXCEPT !.pc = "done"]]
    /\ UNCHANGED <<prefixRoutesTable, exactMatchTable, forked>>
    /\ UNCHANGED history

\* The positions whose step writes exactMatchTable, and those whose step
\* reads or writes it.
WritesMap(c) == c.pc \in {"put", "flush"} \/ (c.pc = "add" /\ c.matchType = "exact")

AccessesMap(c) == WritesMap(c) \/ c.pc = "get"

\* fatal error: concurrent map writes / concurrent map read and map write
Fatal ==
    /\ \E a, b \in Procs : a /= b /\ WritesMap(proc[a]) /\ AccessesMap(proc[b])
    /\ proc' = [self \in Procs |-> [proc[self] EXCEPT !.pc = "fatal"]]
    /\ UNCHANGED <<prefixRoutesTable, exactMatchTable, dynamicEntries, forked>>
    /\ UNCHANGED history

Lookups == \E self \in Procs : LookupGet(self) \/ LookupScan(self)
                               \/ LookupAppend(self) \/ LookupPut(self)

Adds == \E self \in Procs : AddExactStep(self) \/ AddFind(self) \/ AddInsert(self)
                            \/ AddFlush(self) \/ AddClear(self)

ConcurrentNext ==
    \/ SetupAddRoute
    \/ SetupRouteLookup
    \/ Fork
    \/ Lookups
    \/ Adds
    \/ Fatal

ConcurrentSpec == Init /\ [][ConcurrentNext]_vars

\* The calls made one at a time, as functions of the tables: what
\* RouteLookup(path) returns and leaves, what AddRoute leaves.
LookupOutcome(t, path) ==
    IF path \in DOMAIN t.exact
    THEN [tables |-> t, result |-> t.exact[path].destination]
    ELSE LET d == ScanDestination(t.prefix, path)
         IN  [tables |-> Tables(t.prefix,
                                Put(t.exact, path, Route(path, "exact", d, TRUE)),
                                Append(t.entries, path)),
              result |-> d]

AddOutcomes(t, path, matchType, destination) ==
    LET rte == Route(path, matchType, destination, FALSE)
        I == { k \in DOMAIN t.prefix : t.prefix[k].path = path }
    IN  IF matchType = "exact"
        THEN { [tables |-> Tables(t.prefix, Put(t.exact, path, rte), t.entries), result |-> ""] }
        ELSE IF I /= {}
        THEN { [tables |-> Tables([t.prefix EXCEPT ![Min(I)].destination = destination],
                                  FlushFrom(t.exact, t.entries, 1), <<>>),
                result |-> ""] }
        ELSE { [tables |-> Tables(s, t.exact, t.entries), result |-> ""] :
                 s \in SortSlice(Append(t.prefix, rte)) }

CallOutcomes(t, c) ==
    IF c.op = "RouteLookup" THEN { LookupOutcome(t, c.path) }
    ELSE AddOutcomes(t, c.path, c.matchType, c.destination)

\* The outcomes of the call of caller a followed by that of caller b.
SerialOutcomes(a, b) ==
    UNION { { [tables |-> o2.tables,
               results |-> [self \in {a, b} |-> IF self = a THEN o1.result ELSE o2.result]] :
              o2 \in CallOutcomes(o1.tables, proc[b]) } :
            o1 \in CallOutcomes(forked, proc[a]) }

AllDone == \A self \in Procs : proc[self].pc = "done"

----------------------------------------------------------------------------
\* The worked example: addLookupTests of the test file, which is also the
\* example of the package comment and the run of main().

Test(operation, arg1, arg2, arg3, expected1, expected2) ==
    [operation |-> operation, arg1 |-> arg1, arg2 |-> arg2, arg3 |-> arg3,
     expected1 |-> expected1, expected2 |-> expected2]

addLookupTests ==
    << Test("addRoute", "/api/1", "exact", "service-1", "", ""),
       Test("addRoute", "/api/1/1", "exact", "service-2", "", ""),
       Test("addRoute", "/api/2/1", "prefix", "service-3", "", ""),
       Test("addRoute", "/api/2/", "prefix", "service-4", "", ""),
       Test("addRoute", "/api/1", "prefix", "service-5", "", ""),
       Test("addRoute", "/api/2/1/1", "prefix", "service-6", "", ""),
       Test("routeLookup", "/api/1", "", "", "service-1", ""),
       Test("routeLookup", "/api/1/2", "", "", "service-5", ""),
       Test("routeLookup", "/api/3", "", "", "default-service", ""),
       Test("routeLookup", "/api/2/1/2", "", "", "service-3", ""),
       Test("routeLookup", "/api/2/", "", "", "service-4", ""),
       Test("addRoute", "/api/2/", "prefix", "service-7", "", ""),
       Test("routeLookup", "/api/2/", "", "", "service-7", "") >>

\* The tests form four blocks: the registrations, the lookups, the
\* modification, the last lookup.  A block starts when the blocks before it
\* are done; the tests of a block run in any order, that of the table
\* included.
Block(k) ==
    LET before == { j \in 1..(k - 1) : addLookupTests[j].operation /= addLookupTests[k].operation }
    IN  IF before = {} THEN {} ELSE 1..Max(before)

Runnable(k) == k \notin done /\ Block(k) \subseteq done

TestAddRoute ==
    \E k \in DOMAIN addLookupTests :
        /\ Runnable(k)
        /\ addLookupTests[k].operation = "addRoute"
        /\ AddRoute(addLookupTests[k].arg1, addLookupTests[k].arg2, addLookupTests[k].arg3)
        /\ done' = done \cup {k}
        /\ calls' = calls + 1
        /\ UNCHANGED <<proc, forked>>

TestRouteLookup ==
    \E k \in DOMAIN addLookupTests :
        /\ Runnable(k)
        /\ addLookupTests[k].operation = "routeLookup"
        /\ RouteLookup(addLookupTests[k].arg1)
        /\ done' = done \cup {k}
        /\ calls' = calls + 1
        /\ UNCHANGED <<proc, forked>>

ExampleNext == TestAddRoute \/ TestRouteLookup

ExampleSpec == Init /\ [][ExampleNext]_vars

----------------------------------------------------------------------------
\* Vocabulary of the properties

Range(f) == { f[x] : x \in DOMAIN f }

\* q is a leading substring of p
IsPrefix(q, p) == Len(q) <= Len(p) /\ SubSeq(p, 1, Len(q)) = q

\* The registered non-empty prefix paths that are leading substrings of p.
RegisteredMatches(p) == { q \in DOMAIN prefixRoutes : q /= "" /\ IsPrefix(q, p) }

LongestRegistered(p) ==
    CHOOSE q \in RegisteredMatches(p) : \A o \in RegisteredMatches(p) : Len(o) <= Len(q)

\* p evaluated against a prefix table: the destination of the longest
\* matching record, else the default service.
TableEvaluation(table, p) ==
    LET M == { i \in DOMAIN table : table[i].path /= "" /\ IsPrefix(table[i].path, p) }
    IN  IF M = {} THEN DefaultService
        ELSE table[CHOOSE i \in M : \A j \in M : Len(table[j].path) <= Len(table[i].path)].destination

IsCall == calls' = calls + 1

----------------------------------------------------------------------------
\* C1: once RouteLookup(p) has cached a prefix-derived or default
\* destination for p, an AddRoute of matchType prefix that inserts a new
\* prefix path or changes an existing prefix route leaves the table in a
\* state where RouteLookup(p) returns p evaluated against the current prefix
\* table, not the cached destination.
C1_InvalidationCorrectness ==
    [][ ( /\ IsCall
          /\ ret'.op = "AddRoute"
          /\ ret'.matchType = "prefix"
          /\ prefixRoutesTable' /= prefixRoutesTable )
        => \A p \in Paths :
              (p \in DOMAIN exactMatchTable /\ exactMatchTable[p].dynamicEntry)
              => LookupDestination(p)' = TableEvaluation(prefixRoutesTable', p) ]_vars

\* C2: in every reachable state, a path with no exact route registered that
\* is matched by one or more registered prefix routes looks up to the
\* destination registered for the longest matching prefix.
C2_LongestPrefix ==
    \A p \in Paths :
        (p \notin DOMAIN exactRoutes /\ RegisteredMatches(p) /= {})
        => LookupDestination(p) = prefixRoutes[LongestRegistered(p)]

\* C3: in every reachable state, a path with an exact route registered looks
\* up to the exact route's destination, whatever prefix routes match it and
\* whether or not it was looked up and cached before the registration; a
\* RouteLookup that has just returned for such a path returned it.
C3_ExactPriority ==
    /\ \A p \in DOMAIN exactRoutes : LookupDestination(p) = exactRoutes[p]
    /\ (ret.op = "RouteLookup" /\ ret.path \in DOMAIN exactRoutes)
       => ret.result = exactRoutes[ret.path]

\* A lookup has returned for a path that was cached by an earlier lookup and
\* registered as an exact route afterwards.
C3_Witness ==
    /\ ret.op = "RouteLookup"
    /\ ret.path \in DOMAIN exactRoutes
    /\ \E i \in DOMAIN dynamicEntries : dynamicEntries[i] = ret.path /\ ret.path /= ""
    /\ ret.result = exactRoutes[ret.path]

\* C4: AddRoute returns a non-nil error exactly when matchType is neither
\* "exact" nor "prefix", and such a call leaves the three tables unchanged.
C4_InvalidMatchTypeRejected ==
    [][ (IsCall /\ ret'.op = "AddRoute")
        => /\ (ret'.err /= "nil") <=> (ret'.matchType \notin {"exact", "prefix"})
           /\ (ret'.matchType \notin {"exact", "prefix"})
              => UNCHANGED <<prefixRoutesTable, exactMatchTable, dynamicEntries>> ]_vars

\* C5: in every reachable state, a path that equals no registered exact path
\* and has no registered non-empty prefix path as a leading substring looks
\* up to default-service, and a RouteLookup that has just returned for such
\* a path returned default-service and a nil error.
C5_DefaultFallback ==
    /\ \A p \in Paths :
          (p \notin DOMAIN exactRoutes /\ RegisteredMatches(p) = {})
          => LookupDestination(p) = DefaultService
    /\ ( /\ ret.op = "RouteLookup"
         /\ ret.path \notin DOMAIN exactRoutes
         /\ RegisteredMatches(ret.path) = {} )
       => ret.result = DefaultService /\ ret.err = "nil"

\* A lookup of a non-empty path has returned the default although the empty
\* path and a path that is no leading substring are registered as prefixes.
C5_Witness ==
    /\ ret.op = "RouteLookup"
    /\ ret.path /= ""
    /\ ret.path \notin DOMAIN exactRoutes
    /\ "" \in DOMAIN prefixRoutes
    /\ \E q \in DOMAIN prefixRoutes : q /= ""
    /\ RegisteredMatches(ret.path) = {}
    /\ ret.result = DefaultService

\* C6 as stated: if RouteLookup(p) returned d and no AddRoute of a prefix
\* route occurred afterwards, a later RouteLookup(p) returns d.
C6_CacheTransparency ==
    [][ (IsCall /\ ret'.op = "RouteLookup" /\ ret'.path \in DOMAIN answered)
        => ret'.result = answered[ret'.path].destination ]_vars

\* C6 as amended: if RouteLookup(p) returned d and the only calls made
\* afterwards are RouteLookups and AddRoutes of matchType exact for paths
\* other than p, a later RouteLookup(p) returns d.
C6_CacheTransparencyAmended ==
    [][ ( /\ IsCall
          /\ ret'.op = "RouteLookup"
          /\ ret'.path \in DOMAIN answered
          /\ ~answered[ret'.path].exactSince )
        => ret'.result = answered[ret'.path].destination ]_vars

\* A lookup that fell through to a registered prefix has been repeated, with
\* no AddRoute for a prefix or for its path in between.
C6_Witness ==
    /\ ret.op = "RouteLookup"
    /\ ret.path \in DOMAIN answered
    /\ answered[ret.path].repeated
    /\ ret.path \notin DOMAIN exactRoutes
    /\ RegisteredMatches(ret.path) /= {}
    /\ ret.result = prefixRoutes[LongestRegistered(ret.path)]

\* C7 (for a non-empty path): when AddRoute(path, "prefix", d2) returns for
\* a path already registered as exact with d1, the exact record still has
\* d1, the prefix table holds a prefix record for path with d2, path looks
\* up to d1, and every longer path that starts with path, has no exact
\* route and no longer matching prefix looks up to d2.
C7_ExactPrefixIndependence ==
    ( /\ ret.op = "AddRoute"
      /\ ret.matchType = "prefix"
      /\ ret.path /= ""
      /\ ret.path \in DOMAIN exactRoutes )
    => /\ ret.path \in DOMAIN exactMatchTable
       /\ exactMatchTable[ret.path] = Route(ret.path, "exact", exactRoutes[ret.path], FALSE)
       /\ \E i \in DOMAIN prefixRoutesTable :
             /\ prefixRoutesTable[i].path = ret.path
             /\ prefixRoutesTable[i].destination = ret.destination
             /\ ~prefixRoutesTable[i].dynamicEntry
       /\ LookupDestination(ret.path) = exactRoutes[ret.path]
       /\ \A q \in Paths :
             ( /\ Len(q) > Len(ret.path)
               /\ IsPrefix(ret.path, q)
               /\ q \notin DOMAIN exactRoutes
               /\ LongestRegistered(q) = ret.path )
             => LookupDestination(q) = ret.destination

\* C8: every registered exact path looks up to the destination of its most
\* recent exact registration, and when AddRoute(path, "prefix", d) returns
\* the prefix table holds exactly one record for path, with destination d.
C8_ModificationReplaces ==
    /\ \A p \in DOMAIN exactRoutes : LookupDestination(p) = exactRoutes[p]
    /\ (ret.op = "AddRoute" /\ ret.matchType = "prefix")
       => /\ Cardinality({ i \in DOMAIN prefixRoutesTable :
                            prefixRoutesTable[i].path = ret.path }) = 1
          /\ \A i \in DOMAIN prefixRoutesTable :
                prefixRoutesTable[i].path = ret.path
                => prefixRoutesTable[i].destination = ret.destination

\* The destinations RouteLookup(p) may return: the default, the destination
\* of the exact route registered for p, the destinations of the registered
\* prefix routes that match p.
Registered(p) ==
    {DefaultService}
    \cup (IF p \in DOMAIN exactRoutes THEN {exactRoutes[p]} ELSE {})
    \cup { prefixRoutes[q] : q \in RegisteredMatches(p) }

\* C9: in every reachable state every path looks up to default-service or to
\* the destination currently held by a registered exact or prefix route for
\* it, and a RouteLookup that has just returned returned such a destination
\* and a nil error.
C9_LookupTotal ==
    /\ \A p \in Paths : LookupDestination(p) \in Registered(p)
    /\ ret.op = "RouteLookup"
       => ret.err = "nil" /\ ret.result \in Registered(ret.path)

\* A lookup has fallen through to a registered prefix route and returned its
\* destination after a prefix modification had flushed the cache.
C9_Witness ==
    /\ ret.op = "RouteLookup"
    /\ ret.path \notin DOMAIN exactRoutes
    /\ RegisteredMatches(ret.path) /= {}
    /\ ret.result = prefixRoutes[LongestRegistered(ret.path)]
    /\ dynamicEntries = <<ret.path>>

\* The lookup test that ran last, when the last call was a lookup.
LastLookupTest ==
    Max({ k \in done : /\ addLookupTests[k].operation = "routeLookup"
                       /\ addLookupTests[k].arg1 = ret.path })

\* C10: in the worked example every AddRoute and every RouteLookup returns
\* a nil error and every RouteLookup returns the destination the table of
\* tests expects: service-1, service-5, default-service, service-3,
\* service-4, and service-7 for /api/2/ after the modification.
C10_WorkedExample ==
    /\ ret.err = "nil"
    /\ ret.op = "RouteLookup" => ret.result = addLookupTests[LastLookupTest].expected1

\* The last lookup of the example has returned service-7 for /api/2/.
C10_Witness ==
    /\ done = DOMAIN addLookupTests
    /\ ret.op = "RouteLookup"
    /\ ret.path = "/api/2/"
    /\ ret.result = "service-7"

\* C11: when the calls of two concurrent callers have both returned, the
\* three tables and the destinations returned are those of the two calls
\* made one at a time, in one order or the other, from the tables the
\* callers started with.
C11_CallsSerialised ==
    AllDone
    => [tables |-> Tables(prefixRoutesTable, exactMatchTable, dynamicEntries),
        results |-> [self \in Procs |-> proc[self].result]]
       \in SerialOutcomes(1, 2) \cup SerialOutcomes(2, 1)

\* C12: once an AddRoute that modified an existing prefix route matching p
\* has returned, while a RouteLookup(p) ran concurrently with it, the exact
\* match table holds no dynamically generated record for p with another
\* destination than p evaluated against the prefix table, and p looks up to
\* that evaluation unless it has a static exact route.
C12_NoStaleEntryUnderInterleaving ==
    \A a, l \in Procs :
        ( /\ proc[a].op = "AddRoute"
          /\ proc[a].matchType /= "exact"
          /\ proc[a].pc = "done"
          /\ \E i \in DOMAIN forked.prefix : forked.prefix[i].path = proc[a].path
          /\ proc[l].op = "RouteLookup"
          /\ proc[a].path /= ""
          /\ IsPrefix(proc[a].path, proc[l].path) )
        => LET p == proc[l].path
           IN  (p \in DOMAIN exactMatchTable /\ exactMatchTable[p].dynamicEntry)
               => /\ exactMatchTable[p].destination = TableEvaluation(prefixRoutesTable, p)
                  /\ LookupDestination(p) = TableEvaluation(prefixRoutesTable, p)

\* C13: no step, of a call made alone or of concurrent calls, replaces a
\* record of the exact match table that is not dynamically generated by a
\* dynamically generated one.
C13_GeneratedNeverReplacesStatic ==
    [][ \A p \in DOMAIN exactMatchTable :
           ~exactMatchTable[p].dynamicEntry
           => ~(p \in DOMAIN exactMatchTable' /\ exactMatchTable'[p].dynamicEntry) ]_vars

\* C14: when an AddRoute that ran flushDynamicRoutes returns, the exact
\* match table holds no dynamically generated record for any path, the
\* empty path included, and dynamicEntries is empty.
C14_FlushEmptiesCache ==
    flushed.ran
    => /\ \A p \in DOMAIN exactMatchTable : ~exactMatchTable[p].dynamicEntry
       /\ dynamicEntries = <<>>

\* C15: a call that runs flushDynamicRoutes removes from the exact match
\* table only records that are dynamically generated, adds none, leaves
\* every record written by AddRoute(p, "exact", d) in place with its
\* destination, and leaves the prefix table as the modification of the
\* call's own record made it (no record is moved, added, removed or given
\* another path).
C15_FlushKeepsAuthoritative ==
    [][ (IsCall /\ flushed'.ran)
        => /\ DOMAIN exactMatchTable' \subseteq DOMAIN exactMatchTable
           /\ \A p \in DOMAIN exactMatchTable :
                 ~exactMatchTable[p].dynamicEntry
                 => p \in DOMAIN exactMatchTable' /\ exactMatchTable'[p] = exactMatchTable[p]
           /\ \A p \in DOMAIN exactRoutes' :
                 /\ p \in DOMAIN exactMatchTable'
                 /\ exactMatchTable'[p] = Route(p, "exact", exactRoutes'[p], FALSE)
           /\ Len(prefixRoutesTable') = Len(prefixRoutesTable)
           /\ \A i \in DOMAIN prefixRoutesTable :
                 \/ prefixRoutesTable'[i] = prefixRoutesTable[i]
                 \/ /\ prefixRoutesTable[i].path = ret'.path
                    /\ prefixRoutesTable'[i] =
                          [prefixRoutesTable[i] EXCEPT !.destination = ret'.destination] ]_vars

\* A flush has run over a ledger that still held the path of an exact route
\* registered over a cached entry, and the exact route is in place.
C15_Witness ==
    /\ flushed.ran
    /\ \E p \in flushed.entries :
          /\ p /= ""
          /\ p \in DOMAIN exactRoutes
          /\ p \in DOMAIN exactMatchTable
          /\ exactMatchTable[p] = Route(p, "exact", exactRoutes[p], FALSE)

\* C16: in every reachable state every dynamically generated record of the
\* exact match table has its path in dynamicEntries, and every non-empty
\* path in dynamicEntries has a record in the exact match table.
C16_LedgerCoversCache ==
    /\ \A p \in DOMAIN exactMatchTable :
          exactMatchTable[p].dynamicEntry
          => \E i \in DOMAIN dynamicEntries : dynamicEntries[i] = p
    /\ \A i \in DOMAIN dynamicEntries :
          dynamicEntries[i] /= "" => dynamicEntries[i] \in DOMAIN exactMatchTable

\* C17: in every reachable state, the initial one included, the prefix
\* table is non-increasing by path length and holds no dynamically
\* generated record.
C17_PrefixTableSorted ==
    /\ \A i, j \in DOMAIN prefixRoutesTable :
          i < j => Len(prefixRoutesTable[i].path) >= Len(prefixRoutesTable[j].path)
    /\ \A i \in DOMAIN prefixRoutesTable : ~prefixRoutesTable[i].dynamicEntry

\* Two prefix routes of different non-empty lengths have been inserted and
\* a prefix route has then been modified in place.
C17_Witness ==
    /\ Len(prefixRoutesTable) = InitialSize + 2
    /\ \E i, j \in DOMAIN prefixRoutesTable :
          /\ Len(prefixRoutesTable[i].path) > Len(prefixRoutesTable[j].path)
          /\ Len(prefixRoutesTable[j].path) > 0
    /\ flushed.ran

\* C18: a RouteLookup(p) that finds no record at p leaves at key p a
\* dynamically generated record with the returned destination, which is
\* that of the longest matching prefix record or default-service, appends p
\* to dynamicEntries, and changes no other key and not the prefix table; a
\* RouteLookup(p) that finds a record changes none of the three tables.
C18_LookupCachesAtInputPath ==
    [][ (IsCall /\ ret'.op = "RouteLookup")
        => IF ret'.path \in DOMAIN exactMatchTable
           THEN UNCHANGED <<exactMatchTable, dynamicEntries, prefixRoutesTable>>
           ELSE /\ ret'.result = TableEvaluation(prefixRoutesTable, ret'.path)
                /\ DOMAIN exactMatchTable' = DOMAIN exactMatchTable \cup {ret'.path}
                /\ exactMatchTable'[ret'.path] = Route(ret'.path, "exact", ret'.result, TRUE)
                /\ \A q \in DOMAIN exactMatchTable : exactMatchTable'[q] = exactMatchTable[q]
                /\ dynamicEntries' = Append(dynamicEntries, ret'.path)
                /\ UNCHANGED prefixRoutesTable ]_vars

\* A lookup has fallen through to a shorter registered prefix and cached its
\* destination at the input path, while the prefix path itself has no record
\* in the exact match table.
C18_Witness ==
    /\ ret.op = "RouteLookup"
    /\ ret.path \in DOMAIN exactMatchTable
    /\ exactMatchTable[ret.path] = Route(ret.path, "exact", ret.result, TRUE)
    /\ dynamicEntries[Len(dynamicEntries)] = ret.path
    /\ RegisteredMatches(ret.path) /= {}
    /\ LongestRegistered(ret.path) /= ret.path
    /\ LongestRegistered(ret.path) \notin DOMAIN exactMatchTable
    /\ ret.result = prefixRoutes[LongestRegistered(ret.path)]

\* C19: in every reachable state the scan selects for a path only a record
\* whose path is non-empty, no longer than the path and its leading
\* substring, it selects none when no record is such, so a prefix route
\* registered with the empty path is never selected and a path with no other
\* matching route resolves to default-service.
C19_EmptyPrefixMatchesNothing ==
    \A p \in Paths :
        LET i == FirstMatch(prefixRoutesTable, p)
            M == { k \in DOMAIN prefixRoutesTable :
                     /\ prefixRoutesTable[k].path /= ""
                     /\ IsPrefix(prefixRoutesTable[k].path, p) }
        IN  /\ i /= 0 => i \in M
            /\ i = 0 <=> M = {}
            /\ (p \notin DOMAIN exactMatchTable /\ M = {}) => LookupDestination(p) = DefaultService

\* The empty path alone is registered as a prefix, with a destination, and a
\* lookup of a non-empty path has returned default-service.
C19_Witness ==
    /\ DOMAIN prefixRoutes = {""}
    /\ \E i \in DOMAIN prefixRoutesTable :
          prefixRoutesTable[i].path = "" /\ prefixRoutesTable[i].destination \in Destinations
    /\ ret.op = "RouteLookup"
    /\ ret.path /= ""
    /\ ret.path \notin DOMAIN exactRoutes
    /\ ret.result = DefaultService

\* C20: in every reachable state every arrangement of the prefix table
\* that is non-increasing by path length gives every path the same scan
\* destination as the table itself.
C20_EqualLengthOrderIrrelevant ==
    \A t \in SortSlice(prefixRoutesTable) : \A p \in Paths :
        ScanDestination(t, p) = ScanDestination(prefixRoutesTable, p)

\* Two prefix routes of equal length and different destinations are
\* registered, so the table has more than one arrangement of them, and a
\* lookup has fallen through to one of them.
C20_Witness ==
    /\ \E i, j \in DOMAIN prefixRoutesTable :
          /\ prefixRoutesTable[i].path /= prefixRoutesTable[j].path
          /\ Len(prefixRoutesTable[i].path) = Len(prefixRoutesTable[j].path)
          /\ Len(prefixRoutesTable[i].path) > 0
          /\ prefixRoutesTable[i].destination /= prefixRoutesTable[j].destination
    /\ ret.op = "RouteLookup"
    /\ ret.result \in Destinations

====
